---- MODULE Spec2Model ----
(***************************************************************************)
(* The book-event hub of fast-api-books: SSEManager (app/events/manager.py) *)
(* and the streaming session stream_updates / event_generator              *)
(* (app/controllers/sseController.py), as one state machine, together with *)
(* the routes that feed it: the token checks (app/routes/sseRoutes.py,     *)
(* app/authentication_middleware.py) and the book requests                 *)
(* (app/routes/bookRoutes.py, app/controllers/bookController.py).          *)
(*                                                                         *)
(* Scheduling is asyncio's: one event loop, a task runs without            *)
(* interruption up to its next suspension.  An action is therefore one     *)
(* run of a task from a suspension point to the next one.                  *)
(***************************************************************************)
EXTENDS Integers, Sequences, FiniteSets, TLC

\* ------------------------------------------------------------------ bounds
MaxSessions == 2
MaxBroadcasts == 2
MaxTasks == 2
MaxDisconnects == 2
MaxOps == 3

\* asyncio.Queue() is built without a maxsize: 0 means unbounded
maxsize == 0

Sessions == 1..MaxSessions
Tasks == 1..MaxTasks

\* Optional values: None, or a one-element tuple holding the value
None == <<>>
Some(x) == <<x>>

Range(f) == {f[i] : i \in DOMAIN f}

VARIABLES
    clients,         \* SSEManager._clients: the list of registered queues
    queue,           \* the pending items of every asyncio.Queue, by queue
    pc,              \* where each streaming session stands
    emitted,         \* the items each session's event_generator has yielded
    task,            \* the request tasks that run broadcast()
    now,             \* the clock read by datetime.now(); it ticks once per body built
    err,             \* the last exception a hub call raised, "none" if none
    regAt,           \* history: the clock when a session's connect() returned
    during,          \* history: the calls started while a queue was registered
    disconnectCalls, \* history: how often disconnect(q) was called, by queue
    cancelled,       \* history: an exception was thrown into the session's generator
    auth,            \* the token each streaming request carries in its query string
    denied,          \* the error status a streaming request was answered with, 0 if none
    books,           \* the committed rows of the books table, by primary key
    nextId,          \* the next primary key the table hands out
    ops,             \* history: how many book requests were served
    last,            \* history: the latest book request and its outcome
    snap,            \* the mapping handed to serialize_book_data
    enc              \* what serialize_book_data and json.dumps made of it

\* what the hub and the streaming sessions never touch
appVars == <<auth, denied, books, nextId, ops, last, snap, enc>>

vars == <<clients, queue, pc, emitted, task, now, err, regAt, during, disconnectCalls,
          cancelled, appVars>>

\* ------------------------------------------------------------ pure helpers

\* date.isoformat(): YYYY-MM-DD as a string of characters
DigitChar(n) ==
    CASE n = 0 -> "0" [] n = 1 -> "1" [] n = 2 -> "2" [] n = 3 -> "3" [] n = 4 -> "4"
      [] n = 5 -> "5" [] n = 6 -> "6" [] n = 7 -> "7" [] n = 8 -> "8" [] n = 9 -> "9"

Pow10(k) == IF k = 0 THEN 1 ELSE IF k = 1 THEN 10 ELSE IF k = 2 THEN 100 ELSE 1000

Digits(n, w) == [i \in 1..w |-> DigitChar((n \div Pow10(w - i)) % 10)]

\* and datetime.isoformat(): YYYY-MM-DDTHH:MM:SS (no microseconds, no zone)
isoformat_dmy(d) ==
    [t |-> "str", v |-> Digits(d.d, 2) \o <<"-">> \o Digits(d.m, 2) \o <<"-">> \o Digits(d.y, 4)]
isoformat(d) ==
    LET day == Digits(d.y, 4) \o <<"-">> \o Digits(d.m, 2) \o <<"-">> \o Digits(d.d, 2)
    IN  [t |-> "str",
         v |-> IF d.t = "datetime"
               THEN day \o <<"T">> \o Digits(d.H, 2) \o <<":">> \o Digits(d.M, 2)
                        \o <<":">> \o Digits(d.S, 2)
               ELSE day]

\* isinstance(value, (date, datetime))
isdate(value) == value.t \in {"date", "datetime"}

\* DateTimeEncoder.default: called by json.dumps for what it cannot encode
DateTimeEncoder_default(obj) ==
    IF isdate(obj) THEN isoformat(obj) ELSE [t |-> "TypeError"]

\* json.dumps(..., cls=DateTimeEncoder) of one scalar
json_dumps(value) ==
    IF value.t \in {"str", "int"} THEN value ELSE DateTimeEncoder_default(value)

\* SSEManager.serialize_book_data: None for a falsy mapping, else the same
\* keys with every date replaced by its ISO string
serialize_book_data(book_data) ==
    IF book_data # None /\ DOMAIN book_data[1] # {}
    THEN Some([key \in DOMAIN book_data[1] |->
                 IF isdate(book_data[1][key]) THEN isoformat(book_data[1][key])
                 ELSE book_data[1][key]])
    ELSE None

\* the dict broadcast() builds; json.dumps keeps exactly these keys
make_event(ts, event_type, message, book_id, book_data) ==
    [event |-> "bookOperation",
     data  |-> [timestamp |-> ts,
                type      |-> event_type,
                message   |-> message,
                book_id   |-> book_id,
                book_data |-> serialize_book_data(book_data)]]

\* the dict event_generator yields first
initial_event_nulls(ts) ==
    [event |-> "bookOperation",
     data  |-> [timestamp |-> ts,
                type      |-> "connection",
                message   |-> "SSE connection established",
                book_id   |-> None,
                book_data |-> None]]
initial_event(ts) ==
    [event |-> "bookOperation",
     data  |-> [timestamp |-> ts,
                type      |-> "connection",
                message   |-> "SSE connection established"]]

\* asyncio.Queue.full()
full_bounded(q) == Len(q) >= 1
full(q) == IF maxsize <= 0 THEN FALSE ELSE Len(q) >= maxsize

\* asyncio.Queue.put_nowait on a FIFO queue
put_front(q, item) == <<item>> \o q
put(q, item) == Append(q, item)

\* asyncio.Queue.get() returns as soon as the queue is not empty
get_ready_two(q) == Len(q) > 1
get_ready(q) == q # <<>>

\* list.remove: drops the first occurrence, ValueError when there is none
list_remove_through(list, x) ==
    IF x \notin Range(list) THEN [clients |-> <<>>, raised |-> "ValueError"]
    ELSE LET i == CHOOSE i \in DOMAIN list : list[i] = x
         IN  [clients |-> SubSeq(list, i + 1, Len(list)), raised |-> "none"]
RECURSIVE list_remove(_, _)
list_remove(list, x) ==
    IF list = <<>> THEN [clients |-> <<>>, raised |-> "ValueError"]
    ELSE IF Head(list) = x THEN [clients |-> Tail(list), raised |-> "none"]
    ELSE LET rest == list_remove(Tail(list), x)
         IN  [clients |-> <<Head(list)>> \o rest.clients, raised |-> rest.raised]

\* SSEManager.disconnect
disconnect_unguarded(list, q) == list_remove(list, q)
disconnect_noop(list, q) == [clients |-> list, raised |-> "none"]
disconnect_clear(list, q) == [clients |-> <<>>, raised |-> "none"]
disconnect(list, q) ==
    IF q \in Range(list) THEN list_remove(list, q)
    ELSE [clients |-> list, raised |-> "none"]

\* -------------------------------------------------------------------- Init
IdleTask == [pc |-> "idle", event |-> None, next |-> 0, q |-> 0]

\* no book request served yet
NoArgs == [book_id |-> None, title |-> None, fail |-> "none"]

NoRequest ==
    [op |-> "none", token |-> "unset", args |-> NoArgs,
     raised |-> 0, rolled |-> FALSE, status |-> 0, calls |-> <<>>]

Init ==
    /\ clients = <<>>
    /\ queue = [s \in Sessions |-> <<>>]
    /\ pc = [s \in Sessions |-> "init"]
    /\ emitted = [s \in Sessions |-> <<>>]
    /\ task = [t \in Tasks |-> IdleTask]
    /\ now = 0
    /\ err = "none"
    /\ regAt = [s \in Sessions |-> 0]
    /\ during = [s \in Sessions |-> <<>>]
    /\ disconnectCalls = [s \in Sessions |-> 0]
    /\ cancelled = [s \in Sessions |-> FALSE]
    /\ auth = [s \in Sessions |-> "valid"]
    /\ denied = [s \in Sessions |-> 0]
    /\ books = <<>>
    /\ nextId = 1
    /\ ops = 0
    /\ last = NoRequest
    /\ snap = None
    /\ enc = None


\* ---------------------------------------------------------- history helpers
TimestampsOf(items) == [i \in DOMAIN items |-> items[i].data.timestamp]

\* the call that built the event stamped k has returned
Finished(k) ==
    /\ k <= now
    /\ \A t \in Tasks : task[t].pc = "put" => task[t].event[1].data.timestamp # k

Registered(q) == q \in Range(clients)

\* ------------------------------------------------------ SSEManager.connect
connect_replay(s) ==
    /\ queue' = [queue EXCEPT ![s] = IF clients # <<>> THEN queue[clients[1]] ELSE <<>>]
    /\ clients' = Append(clients, s)
connect_twice(s) ==
    /\ queue' = [queue EXCEPT ![s] = <<>>]
    /\ clients' = clients \o <<s, s>>
connect(s) ==
    /\ queue' = [queue EXCEPT ![s] = <<>>]
    /\ clients' = Append(clients, s)

\* stream_updates(): connect() runs in the request task, then the response is
\* built around a generator that has not run yet
stream_updates(s) ==
    /\ pc[s] = "init"
    /\ \A r \in Sessions : r < s => pc[r] # "init"
    /\ connect(s)
    /\ pc' = [pc EXCEPT ![s] = "created"]
    /\ regAt' = [regAt EXCEPT ![s] = now]
    /\ UNCHANGED <<emitted, task, now, err, during, disconnectCalls, cancelled, appVars>>

\* ---------------------------------------------------------- event_generator
\* first __anext__: the body runs up to `yield initial_event`
event_generator_start_late(s) ==
    /\ pc[s] = "created"
    /\ IF get_ready(queue[s])
       THEN /\ emitted' = [emitted EXCEPT ![s] = <<Head(queue[s])>>]
            /\ queue' = [queue EXCEPT ![s] = Tail(@)]
       ELSE /\ emitted' = [emitted EXCEPT ![s] = <<initial_event(now)>>]
            /\ UNCHANGED queue
    /\ pc' = [pc EXCEPT ![s] = "handshake"]
    /\ UNCHANGED <<clients, task, now, err, regAt, during, disconnectCalls, cancelled, appVars>>
event_generator_start(s) ==
    /\ pc[s] = "created"
    /\ emitted' = [emitted EXCEPT ![s] = <<initial_event(now)>>]
    /\ pc' = [pc EXCEPT ![s] = "handshake"]
    /\ UNCHANGED <<clients, queue, task, now, err, regAt, during, disconnectCalls, cancelled, appVars>>

\* a later __anext__: resumes after a yield, reaches `await client_queue.get()`;
\* with an item waiting get() returns at once and the item is yielded,
\* otherwise the generator suspends in get()
event_generator_next_timeout(s) ==
    /\ pc[s] \in {"handshake", "yield"}
    /\ IF get_ready(queue[s])
       THEN /\ emitted' = [emitted EXCEPT ![s] = Append(@, Head(queue[s]))]
            /\ queue' = [queue EXCEPT ![s] = Tail(@)]
            /\ pc' = [pc EXCEPT ![s] = "yield"]
            /\ UNCHANGED <<clients, err, during, disconnectCalls>>
       ELSE /\ pc' = [pc EXCEPT ![s] = "closed"]
            /\ clients' = disconnect(clients, s).clients
            /\ disconnectCalls' = [disconnectCalls EXCEPT ![s] = @ + 1]
            /\ UNCHANGED <<emitted, queue, err, during>>
    /\ UNCHANGED <<task, now, regAt, cancelled, appVars>>
event_generator_next(s) ==
    /\ pc[s] \in {"handshake", "yield"}
    /\ IF get_ready(queue[s])
       THEN /\ emitted' = [emitted EXCEPT ![s] = Append(@, Head(queue[s]))]
            /\ queue' = [queue EXCEPT ![s] = Tail(@)]
            /\ pc' = [pc EXCEPT ![s] = "yield"]
       ELSE /\ pc' = [pc EXCEPT ![s] = "get"]
            /\ UNCHANGED <<emitted, queue>>
    /\ UNCHANGED <<clients, task, now, err, regAt, during, disconnectCalls, cancelled, appVars>>

\* the getter is woken by a put: get() returns the item, which is yielded
event_generator_wake(s) ==
    /\ pc[s] = "get"
    /\ get_ready(queue[s])
    /\ emitted' = [emitted EXCEPT ![s] = Append(@, Head(queue[s]))]
    /\ queue' = [queue EXCEPT ![s] = Tail(@)]
    /\ pc' = [pc EXCEPT ![s] = "yield"]
    /\ UNCHANGED <<clients, task, now, err, regAt, during, disconnectCalls, cancelled, appVars>>

\* the bookkeeping of one disconnect(q) call
Deregister(q) ==
    LET r == disconnect(clients, q)
    IN  /\ clients' = r.clients
        /\ err' = r.raised
        /\ during' = [during EXCEPT ![q] = SelectSeq(@, Finished)]
        /\ disconnectCalls' = [disconnectCalls EXCEPT ![q] = @ + 1]

\* CancelledError, GeneratorExit or a transport error thrown into the
\* generator where it is suspended: the finally block runs disconnect()
event_generator_cancel_notice(s) ==
    /\ pc[s] \in {"handshake", "get", "yield"}
    /\ Deregister(s)
    /\ pc' = [pc EXCEPT ![s] = "closed"]
    /\ cancelled' = [cancelled EXCEPT ![s] = TRUE]
    /\ emitted' = [emitted EXCEPT ![s] =
                     Append(@, [event |-> "bookOperation",
                                data  |-> [timestamp |-> now,
                                           type      |-> "disconnected",
                                           message   |-> "SSE connection closed"]])]
    /\ UNCHANGED <<queue, task, now, regAt, appVars>>
event_generator_cancel(s) ==
    /\ pc[s] \in {"handshake", "get", "yield"}
    /\ Deregister(s)
    /\ pc' = [pc EXCEPT ![s] = "closed"]
    /\ cancelled' = [cancelled EXCEPT ![s] = TRUE]
    /\ UNCHANGED <<queue, emitted, task, now, regAt, appVars>>

\* the request ends after stream_updates() returned and before the generator
\* was first advanced: closing a generator that never ran runs none of its
\* body, so neither the try nor the finally
response_abandoned(s) ==
    /\ pc[s] = "created"
    /\ pc' = [pc EXCEPT ![s] = "dropped"]
    /\ UNCHANGED <<clients, queue, emitted, task, now, err, regAt, during, disconnectCalls, cancelled, appVars>>

\* ------------------------------------------------------------ JWT checks
\* the tokens a request can carry: "" stands for no token (None or empty),
\* "garbage" for any token decode() raises JWTError on (malformed, wrong
\* signature, expired), "nosub" for a well-signed payload without "sub"
Tokens == {"", "garbage", "nosub", "valid"}

\* jose.jwt.decode(token, SECRET_KEY, algorithms=[ALGORITHM])
jwt_decode(token) ==
    CASE token = "valid" -> [raised |-> "none",
                             payload |-> [sub |-> "testuser@test.com", exp |-> "later"]]
      [] token = "nosub" -> [raised |-> "none", payload |-> [exp |-> "later"]]
      [] OTHER           -> [raised |-> "JWTError", payload |-> <<>>]

\* dict.get(key)
get(mapping, key) == IF key \in DOMAIN mapping THEN Some(mapping[key]) ELSE None

\* the status stream_book_updates answers with: 401 for a missing token, a
\* JWTError or a payload without "sub", else the stream is opened (200)
stream_book_updates_status_any_payload(token) ==
    IF token = "" THEN 401
    ELSE IF jwt_decode(token).raised = "JWTError" THEN 401
    ELSE 200
stream_book_updates_status(token) ==
    IF token = "" THEN 401
    ELSE LET decoded == jwt_decode(token)
         IN  IF decoded.raised = "JWTError" THEN 401
             ELSE IF get(decoded.payload, "sub") = None THEN 401
             ELSE 200

\* GET /api/v1/sse/stream: the token checks, then stream_updates()
stream_book_updates(s) ==
    IF stream_book_updates_status(auth[s]) = 200
    THEN stream_updates(s)
    ELSE /\ pc[s] = "init"
         /\ \A r \in Sessions : r < s => pc[r] # "init"
         /\ pc' = [pc EXCEPT ![s] = "rejected"]
         /\ denied' = [denied EXCEPT ![s] = stream_book_updates_status(auth[s])]
         /\ UNCHANGED <<clients, queue, emitted, task, now, err, regAt, during,
                        disconnectCalls, cancelled>>
         /\ UNCHANGED <<auth, books, nextId, ops, last, snap, enc>>

\* ---------------------------------------------------------------- codec
\* scalar values a snapshot can hold, and the mappings over a few field names
Values ==
    { [t |-> "int", v |-> 7],
      [t |-> "str", v |-> <<"D", "u", "n", "e">>],
      [t |-> "date", y |-> 1965, m |-> 8, d |-> 1],
      [t |-> "date", y |-> 2024, m |-> 12, d |-> 31],
      [t |-> "datetime", y |-> 2025, m |-> 1, d |-> 14, H |-> 9, M |-> 5, S |-> 0] }

Fields == {"id", "title", "published_date"}

Snapshots == UNION {[K -> Values] : K \in SUBSET Fields}

\* the book_data of the body broadcast() builds from the argument snap
encode_book_data ==
    /\ enc = None
    /\ LET serialized_book_data == serialize_book_data(snap)
       IN  enc' = Some(IF serialized_book_data = None THEN None
                       ELSE Some([key \in DOMAIN serialized_book_data[1] |->
                                    json_dumps(serialized_book_data[1][key])]))
    /\ UNCHANGED <<clients, queue, pc, emitted, task, now, err, regAt, during,
                   disconnectCalls, cancelled>>
    /\ UNCHANGED <<auth, denied, books, nextId, ops, last, snap>>

\* --------------------------------------------------- SSEManager.broadcast
\* the arguments create_book passes for the record {id: 7, title: "Foo"}
Calls ==
    { [event_type |-> "bookCreated", message |-> "Book created successfully",
       book_id |-> Some(7),
       book_data |-> Some([title |-> [t |-> "str", v |-> <<"F", "o", "o">>]])] }

\* `for queue in self._clients: await queue.put(event)` from list index idx on,
\* up to the first put that has to wait or the end of the (live) list
fan_out_yielding(qs, ev, idx, list) ==
    IF idx > Len(list) THEN [queue |-> qs, pc |-> "idle", next |-> 0, q |-> 0]
    ELSE [queue |-> qs, pc |-> "put", next |-> idx + 1, q |-> list[idx]]
fan_out_put_then_yield(qs, ev, idx, list) ==
    IF idx > Len(list) THEN [queue |-> qs, pc |-> "idle", next |-> 0, q |-> 0]
    ELSE IF idx = Len(list)
         THEN [queue |-> [qs EXCEPT ![list[idx]] = put(@, ev)],
               pc |-> "idle", next |-> 0, q |-> 0]
         ELSE [queue |-> [qs EXCEPT ![list[idx]] = put(@, ev)],
               pc |-> "put", next |-> idx + 2, q |-> list[idx + 1]]
fan_out_first_only(qs, ev, idx, list) ==
    IF idx > Len(list) THEN [queue |-> qs, pc |-> "idle", next |-> 0, q |-> 0]
    ELSE [queue |-> [qs EXCEPT ![list[idx]] = put(@, ev)], pc |-> "idle", next |-> 0, q |-> 0]
RECURSIVE fan_out(_, _, _, _)
fan_out(qs, ev, idx, list) ==
    IF idx > Len(list) THEN [queue |-> qs, pc |-> "idle", next |-> 0, q |-> 0]
    ELSE IF full(qs[list[idx]])
         THEN [queue |-> qs, pc |-> "put", next |-> idx + 1, q |-> list[idx]]
         ELSE fan_out([qs EXCEPT ![list[idx]] = put(@, ev)], ev, idx + 1, list)

TaskAfter(run, ev) ==
    IF run.pc = "idle" THEN IdleTask
    ELSE [pc |-> "put", event |-> Some(ev), next |-> run.next, q |-> run.q]

\* a new call of broadcast() by request task t with the arguments c: nothing
\* is read or built when the registry is empty, else one event is built and
\* put on the queues of the list in list order
broadcast_call_eager(t, c) ==
    LET ev == make_event(now + 1, c.event_type, c.message, c.book_id, c.book_data)
        run == fan_out(queue, ev, 1, clients)
    IN  /\ now' = now + 1
        /\ queue' = run.queue
        /\ task' = [task EXCEPT ![t] = TaskAfter(run, ev)]
        /\ during' = [s \in Sessions |->
                        IF Registered(s) THEN Append(during[s], now + 1)
                        ELSE during[s]]
broadcast_call(t, c) ==
    IF clients = <<>>
    THEN UNCHANGED <<queue, task, now, during>>
    ELSE LET ev == make_event(now + 1, c.event_type, c.message, c.book_id, c.book_data)
             run == fan_out(queue, ev, 1, clients)
         IN  /\ now' = now + 1
             /\ queue' = run.queue
             /\ task' = [task EXCEPT ![t] = TaskAfter(run, ev)]
             /\ during' = [s \in Sessions |->
                             IF Registered(s) THEN Append(during[s], now + 1)
                             ELSE during[s]]

\* one run of a request task inside broadcast(): a new call, or the rest of a
\* call that was suspended in put() and whose queue has room again.  put()
\* suspends only while full() holds; the list iterator keeps an index into the
\* live list, and the suspended put keeps its own queue object.  A call made
\* with an empty registry returns before anything is read or built.
broadcast(t) ==
    IF task[t].pc = "put"
    THEN /\ ~full(queue[task[t].q])
         /\ LET ev == task[t].event[1]
                run == fan_out([queue EXCEPT ![task[t].q] = put(@, ev)], ev,
                               task[t].next, clients)
            IN  /\ queue' = run.queue
                /\ task' = [task EXCEPT ![t] = TaskAfter(run, ev)]
         /\ UNCHANGED <<clients, pc, emitted, now, err, regAt, during, disconnectCalls>>
         /\ UNCHANGED <<cancelled, appVars>>
    ELSE \E c \in Calls :
         /\ now < MaxBroadcasts
         /\ broadcast_call(t, c)
         /\ UNCHANGED <<clients, pc, emitted, err, regAt>>
         /\ UNCHANGED <<disconnectCalls, cancelled, appVars>>

\* arguments any caller can hand to broadcast(): snapshots with strings and
\* dates, and snapshots holding a value json.dumps cannot encode (a Decimal)
AnyCalls ==
    { [event_type |-> "bookUpdated", message |-> "Book updated successfully",
       book_id |-> Some(7), book_data |-> d] :
      d \in { None,
              Some([title |-> [t |-> "str", v |-> <<"F", "o", "o">>],
                    published_date |-> [t |-> "date", y |-> 1965, m |-> 8, d |-> 1]]),
              Some([price |-> [t |-> "Decimal", v |-> 5]]),
              Some([title |-> [t |-> "str", v |-> <<"F", "o", "o">>],
                    price |-> [t |-> "Decimal", v |-> 5]]) } }

\* json.dumps(..., cls=DateTimeEncoder) of the body returns: no value of the
\* serialized snapshot makes JSONEncoder.default raise TypeError
encodable(book_data) ==
    LET serialized_book_data == serialize_book_data(book_data)
    IN  \/ serialized_book_data = None
        \/ \A key \in DOMAIN serialized_book_data[1] :
              json_dumps(serialized_book_data[1][key]).t # "TypeError"

\* broadcast() with any arguments: the body is built and encoded, the clock
\* being read on the way, before the loop over the queues starts; a TypeError
\* of json.dumps leaves broadcast() there
broadcast_call_encode_in_loop(t, c) ==
    IF clients # <<>> /\ ~encodable(c.book_data)
    THEN /\ now' = now + 1
         /\ err' = "TypeError"
         /\ queue' = [queue EXCEPT ![clients[1]] =
                        put(@, make_event(now + 1, c.event_type, c.message,
                                          c.book_id, None))]
         /\ UNCHANGED <<task, during>>
    ELSE /\ broadcast_call(t, c)
         /\ err' = "none"
broadcast_call_encode(t, c) ==
    IF clients # <<>> /\ ~encodable(c.book_data)
    THEN /\ now' = now + 1
         /\ err' = "TypeError"
         /\ UNCHANGED <<queue, task, during>>
    ELSE /\ broadcast_call(t, c)
         /\ err' = "none"

\* a request task calling event_manager.broadcast() with any arguments
broadcast_any(t) ==
    /\ task[t].pc = "idle"
    /\ \A u \in Tasks : u < t => task[u].pc # "idle"
    /\ now < MaxBroadcasts
    /\ \E c \in AnyCalls :
         /\ broadcast_call_encode(t, c)
         /\ snap' = c.book_data
    /\ UNCHANGED <<clients, pc, emitted, regAt, disconnectCalls, cancelled>>
    /\ UNCHANGED <<auth, denied, books, nextId, ops, last, enc>>

\* any task calling event_manager.disconnect(q) for a queue that exists
hub_disconnect(q) ==
    /\ pc[q] # "init"
    /\ disconnectCalls[q] < MaxDisconnects
    /\ Deregister(q)
    /\ UNCHANGED <<queue, pc, emitted, task, now, regAt, cancelled, appVars>>

\* ------------------------------------------------------------ specifications
Next ==
    \/ \E s \in Sessions : stream_updates(s)
    \/ \E s \in Sessions : event_generator_start(s)
    \/ \E s \in Sessions : event_generator_next(s)
    \/ \E s \in Sessions : event_generator_wake(s)
    \/ \E s \in Sessions : event_generator_cancel(s)
    \/ \E s \in Sessions : response_abandoned(s)
    \/ \E t \in Tasks : broadcast(t)

Spec == Init /\ [][Next]_vars

\* the hub driven through its API by arbitrary callers
NextHub ==
    \/ \E s \in Sessions : stream_updates(s)
    \/ \E s \in Sessions : event_generator_start(s)
    \/ \E s \in Sessions : event_generator_cancel(s)
    \/ \E q \in Sessions : hub_disconnect(q)
    \/ \E t \in Tasks : broadcast(t)

HubSpec == Init /\ [][NextHub]_vars


\* fair scheduling: the event loop runs every delivery loop that can run and
\* every connection keeps accepting what is emitted
Delivery(s) ==
    WF_vars(event_generator_start(s) \/ event_generator_next(s) \/ event_generator_wake(s))

LiveSpec == Spec /\ \A s \in Sessions : Delivery(s)

\* the first subscriber may stall for ever; the others are scheduled fairly
Others == Sessions \ {1}

IsolationSpec == Spec /\ \A s \in Others : Delivery(s)

\* ------------------------------------------------------- bookController
\* the request bodies (schemas.BookCreate) the clients send
Titles == {<<"D", "u", "n", "e">>, <<"E", "m", "m", "a">>}

BookInputs ==
    { [title          |-> [t |-> "str", v |-> title],
       author         |-> [t |-> "str", v |-> <<"a">>],
       published_date |-> [t |-> "date", y |-> 1965, m |-> 8, d |-> 1],
       summary        |-> [t |-> "str", v |-> <<"s">>],
       genre          |-> [t |-> "str", v |-> <<"g">>]] : title \in Titles }

\* schemas.Book.from_orm(row).dict(): the row's columns and its primary key
from_orm_dict(id, row) ==
    [key \in {"id"} \cup DOMAIN row |->
       IF key = "id" THEN [t |-> "int", v |-> id] ELSE row[key]]

\* where the storage layer raises SQLAlchemyError during one request
Failures == {"none", "query", "commit", "refresh"}

\* the outcome of a controller call: the committed table, the broadcast calls
\* it made, the status of the HTTPException it raised (0: it returned) and
\* whether it called db.rollback()
Outcome(table, next, calls, raised) ==
    [books |-> table, nextId |-> next, calls |-> calls, raised |-> raised,
     rolled |-> FALSE]

\* db.rollback(): what the session had pending is dropped, what was
\* committed stays
rollback(r) == [r EXCEPT !.rolled = TRUE]

\* the exceptions of app/exceptions.py the controller raises, by status
exceptions ==
    [s \in {400, 404, 503} |->
       CASE s = 404 -> "Book not found"
         [] s = 400 -> "Book with this title already exists"
         [] s = 503 -> "Database connection error"]

\* a call that raised before anything was committed; rollback() drops what
\* the session had pending
Raised(db, status) == Outcome(db.books, db.nextId, <<>>, status)

BroadcastArgs(event_type, message, book_id, book_data) ==
    [event_type |-> event_type, message |-> message,
     book_id |-> book_id, book_data |-> book_data]

\* bookController.create_book
create_book_unchecked(db, book, fail) ==
    IF fail \in {"query", "commit"} THEN rollback(Raised(db, 503))
    ELSE LET id == db.nextId
             table == [i \in DOMAIN db.books \cup {id} |->
                         IF i = id THEN book ELSE db.books[i]]
         IN  IF fail = "refresh" THEN rollback(Outcome(table, id + 1, <<>>, 503))
             ELSE Outcome(table, id + 1,
                          <<BroadcastArgs("bookCreated", "Book created successfully",
                                          Some(id), Some(from_orm_dict(id, book)))>>, 0)
create_book(db, book, fail) ==
    IF fail = "query" THEN rollback(Raised(db, 503))
    ELSE IF \E id \in DOMAIN db.books : db.books[id].title = book.title
    THEN Raised(db, 400)
    ELSE IF fail = "commit" THEN rollback(Raised(db, 503))
    ELSE LET id == db.nextId
             table == [i \in DOMAIN db.books \cup {id} |->
                         IF i = id THEN book ELSE db.books[i]]
         IN  IF fail = "refresh" THEN rollback(Outcome(table, id + 1, <<>>, 503))
             ELSE Outcome(table, id + 1,
                          <<BroadcastArgs("bookCreated", "Book created successfully",
                                          Some(id), Some(from_orm_dict(id, book)))>>, 0)

\* bookController.get_books
get_books(db, fail) ==
    IF fail = "query" THEN Raised(db, 503)
    ELSE Outcome(db.books, db.nextId,
                 <<BroadcastArgs("booksRetrieved", "Books retrieved successfully",
                                 None, None)>>, 0)

\* bookController.get_book
get_book_publish_first(db, book_id, fail) ==
    IF fail = "query" THEN Raised(db, 503)
    ELSE Outcome(db.books, db.nextId,
                 <<BroadcastArgs("bookRetrieved", "Book retrieved successfully",
                                 Some(book_id), None)>>,
                 IF book_id \in DOMAIN db.books THEN 0 ELSE 404)
get_book(db, book_id, fail) ==
    IF fail = "query" THEN Raised(db, 503)
    ELSE IF book_id \notin DOMAIN db.books THEN Raised(db, 404)
    ELSE Outcome(db.books, db.nextId,
                 <<BroadcastArgs("bookRetrieved", "Book retrieved successfully",
                                 Some(book_id),
                                 Some(from_orm_dict(book_id, db.books[book_id])))>>, 0)

\* bookController.update_book
update_book_publish_first(db, book_id, book, fail) ==
    IF fail = "query" THEN Raised(db, 503)
    ELSE IF book_id \notin DOMAIN db.books THEN Raised(db, 404)
    ELSE LET calls == <<BroadcastArgs("bookUpdated", "Book updated successfully",
                                      Some(book_id), Some(from_orm_dict(book_id, book)))>>
         IN  IF fail = "commit" THEN Outcome(db.books, db.nextId, calls, 503)
             ELSE Outcome([db.books EXCEPT ![book_id] = book], db.nextId, calls,
                          IF fail = "refresh" THEN 503 ELSE 0)
update_book(db, book_id, book, fail) ==
    IF fail = "query" THEN rollback(Raised(db, 503))
    ELSE IF book_id \notin DOMAIN db.books THEN Raised(db, 404)
    ELSE IF fail = "commit" THEN rollback(Raised(db, 503))
    ELSE LET table == [db.books EXCEPT ![book_id] = book]
         IN  IF fail = "refresh" THEN rollback(Outcome(table, db.nextId, <<>>, 503))
             ELSE Outcome(table, db.nextId,
                          <<BroadcastArgs("bookUpdated", "Book updated successfully",
                                          Some(book_id),
                                          Some(from_orm_dict(book_id, book)))>>, 0)

\* bookController.delete_book
delete_book_unchecked(db, book_id, fail) ==
    IF fail \in {"query", "commit"} THEN rollback(Raised(db, 503))
    ELSE Outcome([i \in DOMAIN db.books \ {book_id} |-> db.books[i]], db.nextId,
                 <<BroadcastArgs("bookDeleted", "Book deleted successfully",
                                 Some(book_id), None)>>, 0)
delete_book_swallowing(db, book_id, fail) ==
    IF fail = "query" THEN rollback(Raised(db, 503))
    ELSE IF book_id \notin DOMAIN db.books THEN Raised(db, 404)
    ELSE IF fail = "commit"
    THEN Outcome(db.books, db.nextId,
                 <<BroadcastArgs("bookDeleted", "Book deleted successfully",
                                 Some(book_id), None)>>, 0)
    ELSE Outcome([i \in DOMAIN db.books \ {book_id} |-> db.books[i]], db.nextId,
                 <<BroadcastArgs("bookDeleted", "Book deleted successfully",
                                 Some(book_id), None)>>, 0)
delete_book_with_snapshot(db, book_id, fail) ==
    IF fail = "query" THEN Raised(db, 503)
    ELSE IF book_id \notin DOMAIN db.books THEN Raised(db, 404)
    ELSE IF fail = "commit" THEN Raised(db, 503)
    ELSE Outcome([i \in DOMAIN db.books \ {book_id} |-> db.books[i]], db.nextId,
                 <<BroadcastArgs("bookDeleted", "Book deleted successfully",
                                 Some(book_id),
                                 Some(from_orm_dict(book_id, db.books[book_id])))>>, 0)
delete_book(db, book_id, fail) ==
    IF fail = "query" THEN rollback(Raised(db, 503))
    ELSE IF book_id \notin DOMAIN db.books THEN Raised(db, 404)
    ELSE IF fail = "commit" THEN rollback(Raised(db, 503))
    ELSE Outcome([i \in DOMAIN db.books \ {book_id} |-> db.books[i]], db.nextId,
                 <<BroadcastArgs("bookDeleted", "Book deleted successfully",
                                 Some(book_id), None)>>, 0)

\* ------------------------------------------------------------ bookRoutes
\* HTTPBearer hands verify_token a non-empty token
BearerTokens == Tokens \ {""}

\* the ids a request can name: those the table has handed out, and the
\* first one it has not
BookIds == 1..nextId

\* authentication_middleware.verify_token: the subject, or 401
verify_token_any_payload(token) ==
    LET decoded == jwt_decode(token)
    IN  IF decoded.raised = "JWTError" THEN [raised |-> 401, email |-> None]
        ELSE [raised |-> 0, email |-> get(decoded.payload, "sub")]
verify_token(token) ==
    LET decoded == jwt_decode(token)
    IN  IF decoded.raised = "JWTError" THEN [raised |-> 401, email |-> None]
        ELSE IF get(decoded.payload, "sub") = None THEN [raised |-> 401, email |-> None]
        ELSE [raised |-> 0, email |-> get(decoded.payload, "sub")]

\* the session the get_db_connection dependency hands to the route
DB == [books |-> books, nextId |-> nextId]

\* a route whose dependency verify_token raised is not entered
Depends(token, outcome) ==
    IF verify_token(token).raised # 0 THEN Raised(DB, verify_token(token).raised)
    ELSE outcome

\* `except Exception`: whatever the controller raised is answered as 400
Wrapped(token, r, success) ==
    IF verify_token(token).raised # 0 THEN r.raised
    ELSE IF r.raised = 0 THEN success ELSE 400

\* `except HTTPException as he: raise he`: the controller's status is kept
Passed(token, r, success) ==
    IF r.raised = 0 THEN success ELSE r.raised

\* the first free request task t serves one book request: the table as the
\* controller left it, the broadcast call it made (never suspending) and the
\* response status
Serve(t, op, token, args, r, status) ==
    /\ ops < MaxOps
    /\ now < MaxBroadcasts
    /\ task[t].pc = "idle"
    /\ \A u \in Tasks : u < t => task[u].pc # "idle"
    /\ books' = r.books
    /\ nextId' = r.nextId
    /\ ops' = ops + 1
    /\ last' = [op |-> op, token |-> token, args |-> args,
                raised |-> r.raised, rolled |-> r.rolled,
                status |-> status, calls |-> r.calls]
    /\ IF r.calls = <<>>
       THEN UNCHANGED <<queue, task, now, during>>
       ELSE broadcast_call(t, r.calls[1])
    /\ UNCHANGED <<clients, pc, emitted, err, regAt, disconnectCalls, cancelled>>
    /\ UNCHANGED <<auth, denied, snap, enc>>

\* a request whose token verify_token rejects: the route function is never
\* called, so none of its other inputs is read
Rejected(t, op, token) ==
    /\ verify_token(token).raised # 0
    /\ LET r == Depends(token, Raised(DB, 0))
       IN  Serve(t, op, token, NoArgs, r, r.raised)

\* POST /api/v1/books/
bookRoutes_create_book(t) ==
    \E token \in BearerTokens :
        \/ Rejected(t, "create_book", token)
        \/ /\ verify_token(token).raised = 0
           /\ \E book \in BookInputs, fail \in Failures :
                LET r == Depends(token, create_book(DB, book, fail))
                    args == [book_id |-> None, title |-> Some(book.title.v), fail |-> fail]
                IN  Serve(t, "create_book", token, args, r, Wrapped(token, r, 201))

\* GET /api/v1/books/
read_books(t) ==
    \E token \in BearerTokens :
        \/ Rejected(t, "read_books", token)
        \/ /\ verify_token(token).raised = 0
           /\ \E fail \in {"none", "query"} :
                LET r == Depends(token, get_books(DB, fail))
                    args == [book_id |-> None, title |-> None, fail |-> fail]
                IN  Serve(t, "read_books", token, args, r, Wrapped(token, r, 200))

\* GET /api/v1/books/{book_id}
read_book(t) ==
    \E token \in BearerTokens :
        \/ Rejected(t, "read_book", token)
        \/ /\ verify_token(token).raised = 0
           /\ \E book_id \in BookIds, fail \in {"none", "query"} :
                LET r == Depends(token, get_book(DB, book_id, fail))
                    args == [book_id |-> Some(book_id), title |-> None, fail |-> fail]
                IN  Serve(t, "read_book", token, args, r, Passed(token, r, 200))

\* PUT /api/v1/books/{book_id}
bookRoutes_update_book(t) ==
    \E token \in BearerTokens :
        \/ Rejected(t, "update_book", token)
        \/ /\ verify_token(token).raised = 0
           /\ \E book_id \in BookIds, book \in BookInputs, fail \in Failures :
                LET r == Depends(token, update_book(DB, book_id, book, fail))
                    args == [book_id |-> Some(book_id), title |-> Some(book.title.v),
                             fail |-> fail]
                IN  Serve(t, "update_book", token, args, r, Passed(token, r, 200))

\* DELETE /api/v1/books/{book_id}
bookRoutes_delete_book(t) ==
    \E token \in BearerTokens :
        \/ Rejected(t, "delete_book", token)
        \/ /\ verify_token(token).raised = 0
           /\ \E book_id \in BookIds, fail \in {"none", "query", "commit"} :
                LET r == Depends(token, delete_book(DB, book_id, fail))
                    args == [book_id |-> Some(book_id), title |-> None, fail |-> fail]
                IN  Serve(t, "delete_book", token, args, r, Passed(token, r, 200))

\* the book routes, with subscribers arriving
NextBooks ==
    \/ \E s \in Sessions : stream_updates(s)
    \/ \E t \in Tasks : bookRoutes_create_book(t)
    \/ \E t \in Tasks : read_books(t)
    \/ \E t \in Tasks : read_book(t)
    \/ \E t \in Tasks : bookRoutes_update_book(t)
    \/ \E t \in Tasks : bookRoutes_delete_book(t)

BookSpec == Init /\ [][NextBooks]_vars

\* streaming requests with any token, answered by the route
InitStream ==
    /\ auth \in [Sessions -> Tokens]
    /\ clients = <<>>
    /\ queue = [s \in Sessions |-> <<>>]
    /\ pc = [s \in Sessions |-> "init"]
    /\ emitted = [s \in Sessions |-> <<>>]
    /\ task = [t \in Tasks |-> IdleTask]
    /\ now = 0
    /\ err = "none"
    /\ regAt = [s \in Sessions |-> 0]
    /\ during = [s \in Sessions |-> <<>>]
    /\ disconnectCalls = [s \in Sessions |-> 0]
    /\ cancelled = [s \in Sessions |-> FALSE]
    /\ denied = [s \in Sessions |-> 0]
    /\ books = <<>>
    /\ nextId = 1
    /\ ops = 0
    /\ last = NoRequest
    /\ snap = None
    /\ enc = None

NextStream ==
    \/ \E s \in Sessions : stream_book_updates(s)
    \/ \E s \in Sessions : event_generator_start(s)
    \/ \E s \in Sessions : event_generator_next(s)
    \/ \E s \in Sessions : event_generator_cancel(s)
    \/ \E t \in Tasks : broadcast(t)

StreamSpec == InitStream /\ [][NextStream]_vars

\* the codec applied to any snapshot argument, absent ones included
InitCodec ==
    /\ snap \in {None} \cup {Some(m) : m \in Snapshots}
    /\ enc = None
    /\ clients = <<>>
    /\ queue = [s \in Sessions |-> <<>>]
    /\ pc = [s \in Sessions |-> "init"]
    /\ emitted = [s \in Sessions |-> <<>>]
    /\ task = [t \in Tasks |-> IdleTask]
    /\ now = 0
    /\ err = "none"
    /\ regAt = [s \in Sessions |-> 0]
    /\ during = [s \in Sessions |-> <<>>]
    /\ disconnectCalls = [s \in Sessions |-> 0]
    /\ cancelled = [s \in Sessions |-> FALSE]
    /\ auth = [s \in Sessions |-> "valid"]
    /\ denied = [s \in Sessions |-> 0]
    /\ books = <<>>
    /\ nextId = 1
    /\ ops = 0
    /\ last = NoRequest

NextCodec == encode_book_data

CodecSpec == InitCodec /\ [][NextCodec]_vars

\* the hub called with any arguments, and the sessions that listen
NextEncode ==
    \/ \E s \in Sessions : stream_updates(s)
    \/ \E s \in Sessions : event_generator_start(s)
    \/ \E s \in Sessions : event_generator_next(s)
    \/ \E t \in Tasks : broadcast_any(t)

EncodeSpec == Init /\ [][NextEncode]_vars

\* ------------------------------------------------------- claim vocabulary
RECURSIVE IsSubseq(_, _)
IsSubseq(a, b) ==
    IF a = <<>> THEN TRUE
    ELSE IF b = <<>> THEN FALSE
    ELSE IF Head(a) = Head(b) THEN IsSubseq(Tail(a), Tail(b))
    ELSE IsSubseq(a, Tail(b))

Count(k, seq) == Cardinality({i \in DOMAIN seq : seq[i] = k})

\* what a session emitted after its first item
EmittedEvents(s) == IF emitted[s] = <<>> THEN <<>> ELSE Tail(emitted[s])
EmittedStamps(s) == TimestampsOf(EmittedEvents(s))

\* every event a queue was handed: those emitted, then those still pending
Recv(s) == EmittedStamps(s) \o TimestampsOf(queue[s])

\* the calls made while s was registered that have returned, in call order
Owed(s) == SelectSeq(during[s], Finished)

Ended(s) == pc[s] \in {"closed", "dropped"}

HasNull(body, key) == key \in DOMAIN body /\ body[key] = None

\* reading a string of decimal digits
DigitVal(c) == CHOOSE n \in 0..9 : DigitChar(n) = c

RECURSIVE ParseNat(_)
ParseNat(chars) ==
    IF chars = <<>> THEN 0
    ELSE 10 * ParseNat(SubSeq(chars, 1, Len(chars) - 1)) + DigitVal(chars[Len(chars)])

\* text is the ISO-8601 string of the date or datetime value
IsIso8601Of(text, value) ==
    /\ text.t = "str"
    /\ Len(text.v) = (IF value.t = "datetime" THEN 19 ELSE 10)
    /\ text.v[5] = "-" /\ text.v[8] = "-"
    /\ ParseNat(SubSeq(text.v, 1, 4)) = value.y
    /\ ParseNat(SubSeq(text.v, 6, 7)) = value.m
    /\ ParseNat(SubSeq(text.v, 9, 10)) = value.d
    /\ value.t = "datetime" =>
          /\ text.v[11] = "T" /\ text.v[14] = ":" /\ text.v[17] = ":"
          /\ ParseNat(SubSeq(text.v, 12, 13)) = value.H
          /\ ParseNat(SubSeq(text.v, 15, 16)) = value.M
          /\ ParseNat(SubSeq(text.v, 18, 19)) = value.S

\* the latest item put on a queue
Newest(q) == q[Len(q)]

\* a step that serves a book request
Served == ops' # ops

\* the snapshot shows the row stored under id in the table
ShowsRow(book_data, id, table) ==
    /\ book_data # None
    /\ id \in DOMAIN table
    /\ DOMAIN book_data[1] = {"id", "title", "author", "published_date", "summary", "genre"}
    /\ book_data[1]["id"] = [t |-> "int", v |-> id]
    /\ \A key \in DOMAIN table[id] : book_data[1][key] = table[id][key]

\* where the stamp k stands in a sequence of stamps
Pos(k, stamps) == CHOOSE i \in DOMAIN stamps : stamps[i] = k

\* a step in which no connect() and no disconnect() runs
NoHubCall ==
    /\ disconnectCalls' = disconnectCalls
    /\ \A s \in Sessions : pc[s] = "init" => pc'[s] = "init"

\* the request of this step names an id the table does not have
NamesMissingId ==
    /\ last'.args.book_id # None
    /\ last'.args.book_id[1] \notin DOMAIN books

\* the request of this step carries a title some stored book has
NamesTakenTitle ==
    /\ last'.args.title # None
    /\ \E id \in DOMAIN books : books[id].title.v = last'.args.title[1]

\* the storage layer raises SQLAlchemyError in this step: the lookup fails,
\* or the commit or refresh the controller gets to fails
StorageRaises ==
    /\ last'.op # "none" /\ last'.raised # 401
    /\ \/ last'.args.fail = "query"
       \/ /\ last'.args.fail \in {"commit", "refresh"}
          /\ last'.op = "create_book" => ~NamesTakenTitle
          /\ last'.op \in {"update_book", "delete_book"} => ~NamesMissingId

\* the session is inside the try block of event_generator
InLoop(s) == pc[s] \in {"handshake", "get", "yield"}

\* --------------------------------------------------------------------- C1
\* C1 (as amended): for every subscriber, the events of the broadcast calls
\* made between its connect() and its disconnect() are all found, in
\* broadcast order, in what it emitted after the handshake followed by what
\* is still pending in its queue: no gap, no reordering.
C1_NoLossInOrder ==
    \A s \in Sessions : pc[s] # "init" => IsSubseq(Owed(s), Recv(s))

C1_Witness ==
    \E s \in Sessions :
        /\ Registered(s)
        /\ Len(Owed(s)) >= 2
        /\ EmittedStamps(s) = Owed(s)

\* C1 as stated: once the session is over, the items it emitted contain
\* every event broadcast between its connect() and its disconnect().
C1_AllEmitted ==
    \A s \in Sessions : pc[s] = "closed" => IsSubseq(Owed(s), EmittedStamps(s))

\* --------------------------------------------------------------------- C2
\* C2: no session that has ended leaves its queue in the registry.
C2_GuaranteedDeregistration ==
    \A s \in Sessions : Ended(s) => ~Registered(s)

\* --------------------------------------------------------------------- C3
\* C3: a broadcast hands its event exactly once to every queue registered
\* for the whole call, whatever connects or disconnects around it, and no
\* queue is ever handed an event twice.
C3_AtomicFanOut ==
    \A s \in Sessions :
        /\ \A k \in Range(Owed(s)) : Count(k, Recv(s)) = 1
        /\ \A k \in Range(Recv(s)) : Count(k, Recv(s)) = 1

C3_Witness ==
    \E s, r \in Sessions :
        /\ s # r
        /\ Registered(s) /\ Len(Owed(s)) = 2
        /\ ~Registered(r) /\ Len(Owed(r)) = 1

\* --------------------------------------------------------------------- C5
\* C5: no broadcast call is ever left waiting in put(): each call returns
\* within its own run, its event placed in every registered queue, however
\* many undelivered items those queues hold.
C5_PublishNeverWaits ==
    /\ \A t \in Tasks : task[t].pc = "idle"
    /\ \A s \in Sessions : Registered(s) => Range(during[s]) \subseteq Range(Recv(s))

C5_Witness ==
    \E s \in Sessions :
        /\ Registered(s)
        /\ Len(queue[s]) = MaxBroadcasts
        /\ Len(during[s]) = MaxBroadcasts

\* --------------------------------------------------------------------- C7
\* C7: disconnect(q) never raises, and a second disconnect(q) leaves the
\* registry as the first left it: q absent, every other queue present.
C7_IdempotentDisconnect ==
    /\ err = "none"
    /\ \A q \in Sessions :
        LET once == disconnect(clients, q)
            twice == disconnect(once.clients, q)
        IN  /\ once.raised = "none" /\ twice.raised = "none"
            /\ twice.clients = once.clients
            /\ q \notin Range(once.clients)
            /\ \A r \in Range(clients) : r # q => r \in Range(once.clients)
            /\ (disconnectCalls[q] > 0 => ~Registered(q))

C7_Witness ==
    \E q, r \in Sessions :
        /\ disconnectCalls[q] >= 2
        /\ ~Registered(q)
        /\ Registered(r)

\* --------------------------------------------------------------------- C8
\* C8: the first item a session emits is the "connection" event and no later
\* item is, also when broadcasts reached its queue before that first item.
C8_HandshakeFirst ==
    \A s \in Sessions :
        emitted[s] # <<>> =>
            /\ emitted[s][1].data.type = "connection"
            /\ \A i \in 2..Len(emitted[s]) : emitted[s][i].data.type # "connection"

C8_Witness ==
    \E s \in Sessions :
        /\ Len(emitted[s]) >= 2
        /\ emitted[s][1].data.type = "connection"
        /\ emitted[s][2].data.timestamp <= emitted[s][1].data.timestamp

\* --------------------------------------------------------------------- C9
\* C9 (as amended): with no broadcast, a session emits exactly one item and
\* then waits in get(); the item's body has type "connection" and carries no
\* book_id and no book_data field at all.
C9_HandshakeScenario ==
    now = 0 =>
        \A s \in Sessions :
            /\ Len(emitted[s]) <= 1
            /\ pc[s] # "yield"
            /\ pc[s] \in {"handshake", "get", "closed"} =>
                 /\ emitted[s] = <<initial_event(0)>>
                 /\ emitted[s][1].data.type = "connection"
                 /\ DOMAIN emitted[s][1].data = {"timestamp", "type", "message"}

C9_Witness ==
    \E s \in Sessions : now = 0 /\ pc[s] = "get" /\ Len(emitted[s]) = 1 /\ queue[s] = <<>>

\* C9 as stated: the one item's body has book_id null and book_data null.
C9_NullFields ==
    \A s \in Sessions :
        (now = 0 /\ pc[s] = "get") =>
            /\ Len(emitted[s]) = 1
            /\ emitted[s][1].data.type = "connection"
            /\ HasNull(emitted[s][1].data, "book_id")
            /\ HasNull(emitted[s][1].data, "book_data")

\* -------------------------------------------------------------------- C10
\* C10: a queue never holds or delivers an event built before its connect();
\* until a later broadcast, a late subscriber has at most its handshake.
C10_NoReplay ==
    \A s \in Sessions :
        /\ \A i \in DOMAIN Recv(s) : Recv(s)[i] > regAt[s]
        /\ (pc[s] # "init" /\ now = regAt[s]) => (queue[s] = <<>> /\ Len(emitted[s]) <= 1)

C10_Witness ==
    \E s \in Sessions :
        /\ regAt[s] >= 1
        /\ now = regAt[s]
        /\ pc[s] = "get"
        /\ Len(emitted[s]) = 1

\* --------------------------------------------------------------------- C6
\* C6: under fair scheduling, an event in a subscriber's queue is eventually
\* emitted by it, unless the session is cancelled.
C6_EventualDelivery ==
    \A s \in Sessions : \A k \in 1..MaxBroadcasts :
        (k \in Range(TimestampsOf(queue[s])))
            ~> (k \in Range(EmittedStamps(s)) \/ Ended(s))

C6_Witness ==
    \E s \in Sessions :
        /\ pc[s] = "yield"
        /\ queue[s] = <<>>
        /\ Len(EmittedStamps(s)) = MaxBroadcasts

\* --------------------------------------------------------------------- C4
\* C4: while the first subscriber never consumes, every other subscriber
\* still emits each event broadcast while it is registered, unless it is
\* itself cancelled.
C4_Isolation ==
    \A s \in Others : \A k \in 1..MaxBroadcasts :
        (k \in Range(during[s]))
            ~> (k \in Range(EmittedStamps(s)) \/ Ended(s))

C4_Witness ==
    \E s \in Others : \E r \in Sessions \ Others :
        /\ pc[r] = "handshake"
        /\ Len(queue[r]) = MaxBroadcasts
        /\ Len(EmittedStamps(s)) = MaxBroadcasts

\* C12: a broadcast() call that builds an event (non-empty registry) appends
\* exactly one item to the queue of every registered channel, and it is one
\* and the same item for all of them: the five body fields, one timestamp
C12_OneIdenticalItemEach ==
    [][now' # now =>
         /\ clients # <<>>
         /\ LET first == queue'[clients[1]]
                ev == first[Len(first)]
            IN  /\ ev.data.timestamp = now'
                /\ DOMAIN ev.data = {"timestamp", "type", "message", "book_id", "book_data"}
                /\ \A s \in Sessions :
                      Registered(s) => queue'[s] = Append(queue[s], ev)]_vars

C12_Witness ==
    \E s, r \in Sessions :
        /\ s # r /\ Registered(s) /\ Registered(r)
        /\ queue[s] # <<>> /\ queue[r] # <<>>
        /\ queue[s][Len(queue[s])] = queue[r][Len(queue[r])]

\* C19: once disconnect(q) has completed, no step changes the contents of
\* queue q any more; later broadcasts reach the other queues only
C19_RemovedReceiveNothing ==
    [][\A q \in Sessions : disconnectCalls[q] > 0 => queue'[q] = queue[q]]_vars

C19_Witness ==
    \E q, r \in Sessions :
        /\ disconnectCalls[q] > 0 /\ ~Registered(q) /\ queue[q] # <<>>
        /\ Registered(r) /\ queue[r] # <<>>
        /\ queue[r][Len(queue[r])].data.timestamp
             > queue[q][Len(queue[q])].data.timestamp

\* C20: a delivery loop is left only by an exception thrown into the
\* generator (cancellation, transport error); until then the session stays
\* registered, however long it has been waiting
C20_NeverEndsVoluntarily ==
    [][\A s \in Sessions :
         /\ (InLoop(s) /\ ~InLoop(s)') => cancelled'[s]
         /\ (InLoop(s)' /\ ~cancelled'[s]) => Registered(s)']_vars

C20_Witness ==
    \E s, r \in Sessions :
        /\ pc[s] = "get" /\ queue[s] = <<>> /\ Registered(s) /\ ~cancelled[s]
        /\ Len(emitted[s]) > 1
        /\ s # r /\ pc[r] = "closed"

\* the tokens that carry no subject the server can read
Unauthorized(token) == token \in {"", "garbage", "nosub"}

\* C16: a streaming request with no token, a token that does not decode, or
\* a payload without "sub" is answered 401 and never reaches
\* stream_updates(): its queue is never registered and nothing, not even
\* the handshake, is emitted for it
C16_UnauthorizedStreamRejected ==
    \A s \in Sessions :
        Unauthorized(auth[s]) =>
            /\ pc[s] \in {"init", "rejected"}
            /\ pc[s] = "rejected" => denied[s] = 401
            /\ ~Registered(s) /\ regAt[s] = 0
            /\ queue[s] = <<>> /\ emitted[s] = <<>>
            /\ during[s] = <<>> /\ disconnectCalls[s] = 0

C16_Witness ==
    \E s, r \in Sessions :
        /\ auth[s] = "nosub" /\ pc[s] = "rejected"
        /\ auth[r] = "valid" /\ Len(emitted[r]) > 1

\* C18 (as amended): for every non-empty snapshot mapping the encoded
\* book_data has exactly the snapshot's keys, every date or datetime value
\* is replaced by its ISO-8601 string (1965-08-01 becomes "1965-08-01") and
\* every other scalar is unchanged; an empty mapping, like an absent one, is
\* encoded as null
C18_SnapshotFidelity ==
    (enc # None) =>
        IF snap = None \/ snap = Some(<<>>)
        THEN enc[1] = None
        ELSE /\ enc[1] # None
             /\ DOMAIN enc[1][1] = DOMAIN snap[1]
             /\ \A key \in DOMAIN snap[1] :
                   LET value == snap[1][key]
                       coded == enc[1][1][key]
                   IN  /\ value.t \in {"date", "datetime"} => IsIso8601Of(coded, value)
                       /\ value.t \notin {"date", "datetime"} => coded = value
                       /\ value = [t |-> "date", y |-> 1965, m |-> 8, d |-> 1] =>
                             coded.v = <<"1", "9", "6", "5", "-", "0", "8", "-", "0", "1">>

C18_Witness ==
    /\ enc # None /\ snap # None
    /\ DOMAIN snap[1] = {"title", "published_date"}
    /\ snap[1]["published_date"] = [t |-> "date", y |-> 1965, m |-> 8, d |-> 1]
    /\ enc[1][1]["published_date"].v = <<"1", "9", "6", "5", "-", "0", "8", "-", "0", "1">>

\* C18 as stated: every snapshot mapping, the empty one included, keeps
\* exactly its keys in the encoded book_data
C18_SameKeysForEveryMapping ==
    (enc # None /\ snap # None) =>
        /\ enc[1] # None
        /\ DOMAIN enc[1][1] = DOMAIN snap[1]

\* C17: a book request whose bearer token fails verification is answered
\* 401 and the operation is not run: the table is as it was and no
\* broadcast call is made, so no queue changes and no event is built
C17_BookRoutesGated ==
    [][(ops' # ops /\ Unauthorized(last'.token)) =>
         /\ last'.status = 401
         /\ last'.calls = <<>>
         /\ books' = books /\ nextId' = nextId
         /\ queue' = queue /\ now' = now /\ task' = task]_vars

C17_Witness ==
    /\ last.op = "delete_book" /\ last.token = "nosub" /\ last.status = 401
    /\ books # <<>> /\ clients # <<>>

\* C11: a broadcast() call made while the registry is empty builds no event
\* and changes nothing in the hub or in any session; a queue registered
\* later starts empty, so its subscriber never sees the event of that call
C11_EmptyRegistryShortCircuit ==
    [][/\ (Served /\ last'.calls # <<>> /\ clients = <<>>) =>
            UNCHANGED <<clients, queue, task, now, during, pc, emitted, regAt, err>>
       /\ \A s \in Sessions :
            (~Registered(s) /\ Registered(s)') =>
                /\ queue'[s] = <<>> /\ emitted'[s] = <<>>
                /\ now' = now]_vars

C11_Witness ==
    /\ last.calls # <<>> /\ last.status = 201
    /\ now = 0
    /\ \E s \in Sessions : Registered(s) /\ queue[s] = <<>>

\* C13: a bookCreated / bookUpdated / bookDeleted broadcast is made only in
\* a step whose commit succeeded: the committed table shows the created or
\* updated row as the event describes it, or no longer has the deleted row;
\* and a queue receives such an event only from such a call
C13_PublishNeverPrecedesCommit ==
    [][/\ (Served /\ last'.calls # <<>>) =>
            LET c == last'.calls[1]
            IN  /\ c.event_type = "bookCreated" =>
                      /\ c.book_id[1] \notin DOMAIN books
                      /\ ShowsRow(c.book_data, c.book_id[1], books')
                /\ c.event_type = "bookUpdated" =>
                      ShowsRow(c.book_data, c.book_id[1], books')
                /\ c.event_type = "bookDeleted" =>
                      /\ c.book_id[1] \in DOMAIN books
                      /\ c.book_id[1] \notin DOMAIN books'
       /\ \A s \in Sessions :
            (Served /\ queue'[s] # queue[s]) =>
                /\ last'.calls # <<>>
                /\ queue'[s] = Append(queue[s], Newest(queue'[s]))
                /\ Newest(queue'[s]).data.type = last'.calls[1].event_type
                /\ Newest(queue'[s]).data.book_id = last'.calls[1].book_id]_vars

C13_Witness ==
    \E s \in Sessions :
        /\ last.op = "update_book" /\ last.status = 200
        /\ queue[s] # <<>>
        /\ Newest(queue[s]).data.type = "bookUpdated"
        /\ ShowsRow(last.calls[1].book_data, Newest(queue[s]).data.book_id[1], books)

\* C14: a book request that fails (401, 404, duplicate title, storage
\* error) makes no broadcast call: no event is built, no queue changes
C14_FailureSuppressesPublication ==
    [][(Served /\ last'.status \notin {200, 201}) =>
         /\ last'.calls = <<>>
         /\ queue' = queue /\ now' = now /\ task' = task]_vars

C14_Witness ==
    /\ last.op = "read_book" /\ last.token = "valid" /\ last.status = 404
    /\ clients # <<>> /\ books # <<>>

\* C15: a successful book request makes exactly one broadcast call, of the
\* kind of its operation; create, update and single read pass the record's
\* id and a snapshot of its row, delete passes the id and no snapshot, the
\* collection read passes neither; the queued event carries the same
C15_BridgeMapping ==
    [][(Served /\ last'.status \in {200, 201}) =>
         /\ Len(last'.calls) = 1
         /\ LET c == last'.calls[1]
            IN  /\ c.event_type =
                      (CASE last'.op = "create_book" -> "bookCreated"
                         [] last'.op = "update_book" -> "bookUpdated"
                         [] last'.op = "delete_book" -> "bookDeleted"
                         [] last'.op = "read_book"   -> "bookRetrieved"
                         [] last'.op = "read_books"  -> "booksRetrieved")
                /\ last'.op = "create_book" =>
                      c.book_id = Some(nextId) /\ ShowsRow(c.book_data, nextId, books')
                /\ last'.op = "update_book" =>
                      c.book_id # None /\ ShowsRow(c.book_data, c.book_id[1], books')
                /\ last'.op = "read_book" =>
                      c.book_id # None /\ ShowsRow(c.book_data, c.book_id[1], books)
                /\ last'.op = "delete_book" =>
                      /\ c.book_id # None /\ c.book_data = None
                      /\ c.book_id[1] \in DOMAIN books \ DOMAIN books'
                /\ last'.op = "read_books" =>
                      c.book_id = None /\ c.book_data = None
                /\ \A s \in Sessions :
                      Registered(s) =>
                          /\ queue'[s] = Append(queue[s], Newest(queue'[s]))
                          /\ Newest(queue'[s]).data.type = c.event_type
                          /\ Newest(queue'[s]).data.book_id = c.book_id
                          /\ (Newest(queue'[s]).data.book_data = None) = (c.book_data = None)]_vars

C15_Witness ==
    \E s \in Sessions :
        /\ last.op = "delete_book" /\ last.status = 200
        /\ queue[s] # <<>>
        /\ Newest(queue[s]).data.type = "bookDeleted"
        /\ Newest(queue[s]).data.book_id # None
        /\ Newest(queue[s]).data.book_data = None

\* C21: after the handshake a session emits only events that a broadcast
\* put on its queue while it was registered, each at most once (what was
\* emitted is no longer pending), and never a "connection" or
\* "disconnected" item, whichever way the session ends
C21_OnlyRealEvents ==
    \A s \in Sessions :
        \A i \in DOMAIN EmittedEvents(s) :
            LET e == EmittedEvents(s)[i]
            IN  /\ e.data.type \notin {"connection", "disconnected"}
                /\ DOMAIN e.data = {"timestamp", "type", "message", "book_id", "book_data"}
                /\ e.data.timestamp \in Range(during[s])
                /\ e.data.timestamp > regAt[s]
                /\ Count(e.data.timestamp, Recv(s)) = 1

C21_Witness ==
    \E s \in Sessions :
        /\ pc[s] = "closed" /\ cancelled[s]
        /\ Len(emitted[s]) > 1 /\ queue[s] # <<>>

\* C22: the registry changes only in a step that runs connect(), which
\* appends exactly the new queue, or disconnect(q), which removes q and
\* nothing else; broadcasts and delivery steps leave it as it is
C22_RegistryOnlyThroughHub ==
    [][/\ NoHubCall => clients' = clients
       /\ (now' # now \/ task' # task \/ emitted' # emitted \/ ops' # ops) =>
            \/ clients' = clients
            \/ \E q \in Sessions : disconnectCalls'[q] # disconnectCalls[q]
       /\ \A s \in Sessions :
            (pc[s] = "init" /\ pc'[s] = "created") =>
                s \notin Range(clients) /\ clients' = Append(clients, s)
       /\ \A q \in Sessions :
            disconnectCalls'[q] # disconnectCalls[q] =>
                Range(clients') = Range(clients) \ {q}]_vars

C22_Witness ==
    \E q, r \in Sessions :
        /\ disconnectCalls[q] > 0 /\ ~Registered(q)
        /\ Registered(r) /\ Len(emitted[r]) > 1 /\ queue[r] # <<>>

\* C27: the registry holds no queue twice, and its members are exactly the
\* queues connect() returned and disconnect() was not yet run for
C27_RegistryTracksSessions ==
    /\ \A i, j \in DOMAIN clients : i # j => clients[i] # clients[j]
    /\ Range(clients) = {s \in Sessions : pc[s] # "init" /\ disconnectCalls[s] = 0}

C27_Witness ==
    \E q, r \in Sessions :
        /\ pc[q] = "closed" /\ disconnectCalls[q] = 1
        /\ pc[r] \in {"created", "get"} /\ clients = <<r>>

\* C28: any two events that two subscribers both received (emitted or still
\* pending) stand in the same order for both, also when the request tasks
\* that broadcast them run concurrently
C28_SameRelativeOrder ==
    \A s, r \in Sessions :
        \A a, b \in Range(Recv(s)) \cap Range(Recv(r)) :
            (Pos(a, Recv(s)) < Pos(b, Recv(s))) = (Pos(a, Recv(r)) < Pos(b, Recv(r)))

C28_Witness ==
    \E s, r \in Sessions :
        /\ s # r /\ Len(Recv(s)) > 1 /\ Recv(s) = Recv(r)
        /\ Len(EmittedStamps(s)) # Len(EmittedStamps(r))

C23_NotFound ==
    [][(Served /\ last'.op \in {"read_book", "update_book", "delete_book"}
               /\ NamesMissingId) =>
         /\ books' = books /\ nextId' = nextId
         /\ last'.calls = <<>> /\ queue' = queue /\ now' = now
         /\ last'.args.fail # "query" =>
               /\ last'.raised = 404 /\ last'.status = 404
               /\ exceptions[last'.raised] = "Book not found"
               /\ ~last'.rolled]_vars

C23_Witness ==
    /\ last.op = "delete_book" /\ last.status = 404 /\ last.args.fail = "commit"
    /\ books # <<>> /\ clients # <<>>

\* C24: when the storage layer raises during a book request the controller
\* makes no broadcast call and raises 503 "Database connection error",
\* after db.rollback() in create, update and delete and without it in the
\* two reads; nothing a failed lookup or commit was about to write is stored
C24_StorageError ==
    [][(Served /\ StorageRaises) =>
         /\ last'.raised = 503
         /\ exceptions[last'.raised] = "Database connection error"
         /\ last'.calls = <<>> /\ queue' = queue /\ now' = now
         /\ last'.rolled = (last'.op \in {"create_book", "update_book", "delete_book"})
         /\ last'.args.fail \in {"query", "commit"} =>
               books' = books /\ nextId' = nextId]_vars

C24_Witness ==
    /\ last.op = "update_book" /\ last.args.fail = "commit"
    /\ last.raised = 503 /\ last.rolled
    /\ books # <<>> /\ clients # <<>>

\* C25: a create request whose title a stored book already has adds no
\* row and makes no broadcast call; it fails with 400 "Book with this
\* title already exists" (unless the lookup itself raised)
C25_DuplicateTitleRejected ==
    [][(Served /\ last'.op = "create_book" /\ NamesTakenTitle) =>
         /\ books' = books /\ nextId' = nextId
         /\ last'.calls = <<>> /\ queue' = queue /\ now' = now
         /\ last'.args.fail # "query" =>
               /\ last'.raised = 400 /\ last'.status = 400
               /\ exceptions[last'.raised] = "Book with this title already exists"]_vars

C25_Witness ==
    /\ last.op = "create_book" /\ last.raised = 400 /\ last.args.fail = "none"
    /\ books # <<>> /\ clients # <<>>

\* C26: no two stored books have the same title
C26_TitlesUnique ==
    \A i, j \in DOMAIN books : i # j => books[i].title # books[j].title

\* C29: a broadcast() call that fails while building or encoding its event
\* raises before any queue is touched: the step changes no queue, no
\* registry entry and no task, and no session has emitted anything new
C29_EncodingFailureTouchesNoQueue ==
    [][(now' # now /\ err' = "TypeError") =>
         /\ queue' = queue /\ clients' = clients
         /\ emitted' = emitted /\ task' = task /\ during' = during
         /\ clients # <<>> /\ snap' # None /\ ~encodable(snap')]_vars

C29_Witness ==
    /\ err = "TypeError" /\ snap # None /\ "price" \in DOMAIN snap[1]
    /\ Len(clients) = 2
    /\ \A s \in 1..2 : Len(queue[s]) + Len(emitted[s]) >= 1
    /\ \E s \in 1..2 : queue[s] # <<>>

====
